---- MODULE Spec2Model ----
(***************************************************************************)
(* rq (protiumx/rq): the interactive execution engine of rq-cli.           *)
(*                                                                         *)
(* Spec       App (rq-cli/src/app.rs) with its request worker              *)
(*            (handle_requests), the two capacity-1 tokio mpsc channels,   *)
(*            the panels of ui.rs (ResponseComponent), the request list    *)
(*            (StatefulList) and the event loop of terminal.rs (run_app).  *)
(* FairSpec   Spec with the fairness the scheduling gives: the worker task *)
(*            runs, the transport call returns, the event loop iterates.   *)
(* PanelSpec  one ResponsePanel of components/response_panel.rs with its   *)
(*            save menu (menu.rs), its path input (input.rs, tui_input),   *)
(*            and the message dialog with the shared MESSAGES queue        *)
(*            (message_dialog.rs), driven by arbitrary key events.         *)
(* QueueSpec  the shared MESSAGES queue and its dialog alone, with pushes   *)
(*            from the UI task and from another task, ticks and keys.      *)
(* ListSpec   one StatefulList (ui.rs) over a list of any length.          *)
(* ScrollSpec scroll_down and scroll_up near both ends of the u16 range.   *)
(*                                                                         *)
(* Option<T> is a sequence of length at most one: None is <<>>, Some(x) is *)
(* <<x>>.                                                                  *)
(***************************************************************************)
EXTENDS Integers, Sequences, FiniteSets, TLC

VARIABLES
    \* ---- App (app.rs:42-52)
    focus,        \* App.focus: "RequestsList" | "ResponseBuffer"
    selected,     \* App.list.state.selected(), always Some(i) after with_items
    responses,    \* App.responses: index -> ResponseComponent [response, scroll]
    should_exit,  \* App.should_exit
    error,        \* App.error: Option<String>
    req_ch,       \* channel<(HttpRequest, usize)>(1): App.req_tx -> worker req_rx
    res_ch,       \* channel<(Result<Response>, usize)>(1): worker res_tx -> App.res_rx
    \* ---- the worker task(s) spawned by handle_requests (app.rs:54-66)
    w_pc,         \* worker -> "recv" | "exec" | "send" | "done" | "panicked"
    w_job,        \* worker -> Option<(req, i)> it took from req_ch
    w_data,       \* worker -> Option<result> the transport call returned
    \* ---- the event loop (terminal.rs:52-76) around App
    ui_pc,        \* "update" | "poll" | "send" | "exited" | "res_rx_dropped" | "dropped"
    ui_pending,   \* Option<(req, i)>: the item of a req_tx.send(..).await in progress
    \* ---- history (not program state): what was submitted and what was merged
    outstanding,  \* the submissions not merged yet, oldest first: for each the
                  \* index that was selected at the Enter that made it
    \* ---- ResponsePanel (response_panel.rs:50-58) and the message dialog
    p_content,    \* ResponsePanel.content: Option<Response>
    p_scroll,     \* ResponsePanel.scroll: u16
    p_input,      \* ResponsePanel.input_popup: Option<text of the Input>
    p_save_option,\* ResponsePanel.save_option: "All" | "Body"
    p_menu,       \* ResponsePanel.save_menu: Option<Menu.idx>
    p_result,     \* what the latest ResponsePanel::on_event returned (HandleResult)
    MESSAGES,     \* the shared queue (message_dialog.rs:17-19)
    dialog,       \* MessageDialog.content: Option<Message>
    written,      \* Option<[path, bytes]>: the latest std::fs::write that succeeded
    \* ---- one StatefulList (ui.rs:13-16) over a list of any length
    l_len,        \* StatefulList.items.len()
    l_selected,   \* StatefulList.state.selected(): Option<usize>
    l_status,     \* "ok" | "panicked": a method of the list panicked
    l_read,       \* Option<index>: the item the latest selected() returned
    l_run,        \* history: the current run of equal cursor operations
                  \* [op, start, count]
    \* ---- ScrollSpec
    s_hist        \* history: the latest scroll operations, [op, from] each

appVars == <<focus, selected, responses, should_exit, error, req_ch, res_ch,
             w_pc, w_job, w_data, ui_pc, ui_pending, outstanding>>
panelVars == <<p_content, p_scroll, p_input, p_save_option, p_menu, p_result, MESSAGES,
               dialog, written>>
listVars == <<l_len, l_selected, l_status, l_read, l_run>>

vars == <<appVars, panelVars, listVars, s_hist>>

None == <<>>
Some(x) == <<x>>
IsSome(o) == o # <<>>
Unwrap(o) == o[1]

(***************************************************************************)
(* Bounds of the model.                                                    *)
(***************************************************************************)
NumRequests == 2    \* requests parsed from the file (panels, list items)
MaxOutstanding == 4 \* Enter submissions not merged yet
MaxScroll == 1      \* scroll_down is explored up to this offset
MaxPath == 1        \* characters typed into the path input
MaxListLen == 4      \* items of the list of ListSpec: 0..MaxListLen
MaxWrapped == 2      \* previous on an empty list is followed this far below 0
MaxFromEdge == 8
MaxHist == 3
MaxMessages == 2    \* messages waiting in MESSAGES

(***************************************************************************)
(* Program constants.                                                      *)
(***************************************************************************)
ChannelCapacity == 1   \* channel(1), both directions
\* mutant of NumWorkers: a pool of two worker tasks on the request channel
NumWorkersPool == 1 + 1
NumWorkers == 1        \* handle_requests is called once, by App::new

Workers == 1..NumWorkers
Indices == 0..(NumRequests - 1)

\* http_file.requests: the parsed requests, one per index, pairwise distinct
Request(i) == [method |-> "GET", url |-> i]

\* rq_core::request::execute: the transport answers with a Response or an error
ExecuteOutcomes(req) ==
    { [kind |-> "ok", val |-> req.url], [kind |-> "err", val |-> req.url] }

\* ResponseComponent::default() / ResponseComponent::new(res)
ResponseComponentDefault == [response |-> None, scroll |-> 0]
\* a new that drops the result and builds the default component
ResponseComponentNewDropsResult(res) == [response |-> None, scroll |-> 0]
ResponseComponentNew(res) == [response |-> Some(res), scroll |-> 0]

\* u16::saturating_add(1) / saturating_sub(1)
U16Max == 65535
\* a scroll_down that wraps as u16::wrapping_add does
WrappingAdd1(n) == (n + 1) % (U16Max + 1)
SaturatingAdd1(n) == IF n = U16Max THEN U16Max ELSE n + 1
\* a scroll_up that subtracts without saturating
PlainSub1(n) == n - 1
SaturatingSub1(n) == IF n = 0 THEN 0 ELSE n - 1

\* a next that stops at the last item instead of wrapping
NextIndexClamped(sel, len) ==
    IF sel = None THEN 0
    ELSE IF Unwrap(sel) + 1 < len THEN Unwrap(sel) + 1 ELSE Unwrap(sel)
\* the index StatefulList::next selects (ui.rs:27-30), for len > 0
NextIndex(sel, len) == IF sel = None THEN 0 ELSE (Unwrap(sel) + 1) % len
\* the index StatefulList::previous selects (ui.rs:35-39).  usize arithmetic:
\* a negative k stands for the wrapped value 2^64 + k
PreviousIndex(sel, len) ==
    IF sel = None THEN 0
    ELSE IF Unwrap(sel) = 0 THEN len - 1
    ELSE Unwrap(sel) - 1

\* StatefulList::next / previous over items.len() = NumRequests, selected = Some(i)
ListNext(i) == NextIndex(Some(i), NumRequests)
ListPrevious(i) == PreviousIndex(Some(i), NumRequests)


(***************************************************************************)
(* Key events (crossterm KeyEvent: code and modifiers).                    *)
(***************************************************************************)
Key(c, m) == [code |-> c, mod |-> m]
AppKeys ==
    { Key(c, "NONE") : c \in {"q", "Q", "c", "j", "Down", "k", "Up", "h", "Left",
                             "l", "Right", "Enter", "Esc", "s", "S", "x"} }
    \cup { Key("c", "CONTROL") }

\* what the places of the pipeline carry: (req, i) and (data, i).  The id is a
\* history tag, not a field of the program: the rank of the submission among
\* the outstanding ones (1 is the oldest), its position in `outstanding`.
ReqItem(r, i, id) == [req |-> r, i |-> i, id |-> id]
ResItem(job, data) == [data |-> data, i |-> job.i, id |-> job.id]

\* the ranks after the submission of rank x has been merged
Rerank(item, x) == IF item.id > x THEN [item EXCEPT !.id = @ - 1] ELSE item
RerankAll(q, x) == [k \in DOMAIN q |-> Rerank(q[k], x)]
RemoveAt(q, x) == [k \in 1..(Len(q) - 1) |-> IF k < x THEN q[k] ELSE q[k + 1]]

InitPanelVars ==
    /\ p_content = None
    /\ p_scroll = 0
    /\ p_input = None
    /\ p_save_option = "All"
    /\ p_menu = None
    /\ p_result = "Ignored"
    /\ MESSAGES = <<>>
    /\ dialog = None
    /\ written = None

\* App::new (app.rs:69-89) followed by the start of run_app
InitAppVars ==
    /\ focus = "RequestsList"
    /\ selected = 0
    /\ responses = [i \in Indices |-> ResponseComponentDefault]
    /\ should_exit = FALSE
    /\ error = None
    /\ req_ch = <<>>
    /\ res_ch = <<>>
    /\ w_pc = [w \in Workers |-> "recv"]
    /\ w_job = [w \in Workers |-> None]
    /\ w_data = [w \in Workers |-> None]
    /\ ui_pc = "update"
    /\ ui_pending = None
    /\ outstanding = <<>>

\* StatefulList::with_items (ui.rs:19-24) over a list of n items
InitListVars(n) ==
    /\ l_len = n
    /\ l_selected = Some(0)
    /\ l_status = "ok"
    /\ l_read = None
    /\ l_run = [op |-> "none", start |-> 0, count |-> 0]

Init == InitAppVars /\ InitPanelVars /\ InitListVars(NumRequests) /\ s_hist = <<>>

(***************************************************************************)
(* The worker task: handle_requests (app.rs:54-66).                        *)
(***************************************************************************)
\* run_app owns the App and drops it when it returns (terminal.rs:52-76); the
\* fields are dropped in the order of their declaration, res_rx (app.rs:43)
\* before req_tx (app.rs:44), while the worker runs on the runtime's threads.
\* the result channel is closed: res_rx is dropped
ResRxDropped == ui_pc \in {"res_rx_dropped", "dropped"}
\* the request channel is closed: req_tx is dropped too
AppDropped == ui_pc = "dropped"

\* drop of App.res_rx
DropResRx ==
    /\ ui_pc = "exited"
    /\ ui_pc' = "res_rx_dropped"
    /\ UNCHANGED <<s_hist, listVars, panelVars, focus, selected, responses, should_exit, error, req_ch,
                   res_ch, w_pc, w_job, w_data, ui_pending, outstanding>>

\* drop of App.req_tx
DropReqTx ==
    /\ ui_pc = "res_rx_dropped"
    /\ ui_pc' = "dropped"
    /\ UNCHANGED <<s_hist, listVars, panelVars, focus, selected, responses, should_exit, error, req_ch,
                   res_ch, w_pc, w_job, w_data, ui_pending, outstanding>>

\* req_rx.recv().await returns Some((req, i))
WorkerRecv(w) ==
    /\ w_pc[w] = "recv"
    /\ req_ch # <<>>
    /\ w_job' = [w_job EXCEPT ![w] = Some(Head(req_ch))]
    /\ req_ch' = Tail(req_ch)
    /\ w_pc' = [w_pc EXCEPT ![w] = "exec"]
    /\ UNCHANGED <<s_hist, listVars, panelVars, focus, selected, responses, should_exit, error, res_ch,
                   w_data, ui_pc, ui_pending, outstanding>>

\* rq_core::request::execute(&req).await returns, map_err(anyhow)
WorkerExecute(w) ==
    /\ w_pc[w] = "exec"
    /\ \E d \in ExecuteOutcomes(Unwrap(w_job[w]).req) :
          w_data' = [w_data EXCEPT ![w] = Some(d)]
    /\ w_pc' = [w_pc EXCEPT ![w] = "send"]
    /\ UNCHANGED <<s_hist, listVars, panelVars, focus, selected, responses, should_exit, error, req_ch,
                   res_ch, w_job, ui_pc, ui_pending, outstanding>>

\* res_tx.send((data, i)).await completes: the result channel has room
WorkerSend(w) ==
    /\ w_pc[w] = "send"
    /\ ~ResRxDropped
    /\ Len(res_ch) < ChannelCapacity
    /\ res_ch' = Append(res_ch, ResItem(Unwrap(w_job[w]), Unwrap(w_data[w])))
    /\ w_job' = [w_job EXCEPT ![w] = None]
    /\ w_data' = [w_data EXCEPT ![w] = None]
    /\ w_pc' = [w_pc EXCEPT ![w] = "recv"]
    /\ UNCHANGED <<s_hist, listVars, panelVars, focus, selected, responses, should_exit, error, req_ch,
                   ui_pc, ui_pending, outstanding>>

\* res_tx.send(..).await returns Err once res_rx is dropped; unwrap() panics
WorkerSendFails(w) ==
    /\ w_pc[w] = "send"
    /\ ResRxDropped
    /\ w_pc' = [w_pc EXCEPT ![w] = "panicked"]
    /\ UNCHANGED <<s_hist, listVars, panelVars, focus, selected, responses, should_exit, error, req_ch,
                   res_ch, w_job, w_data, ui_pc, ui_pending, outstanding>>

\* req_rx.recv().await returns None: channel closed and empty, the loop ends
WorkerStop(w) ==
    /\ w_pc[w] = "recv"
    /\ req_ch = <<>>
    /\ AppDropped
    /\ w_pc' = [w_pc EXCEPT ![w] = "done"]
    /\ UNCHANGED <<s_hist, listVars, panelVars, focus, selected, responses, should_exit, error, req_ch,
                   res_ch, w_job, w_data, ui_pc, ui_pending, outstanding>>


(***************************************************************************)
(* App::on_key_event (app.rs:91-144), one definition per match arm.  Each  *)
(* is a whole on_event call made by run_app after a successful poll; all   *)
(* but a blocked Enter return at once, and run_app then tests should_exit. *)
(***************************************************************************)
SelectedResponse == responses[selected]

\* a dismissal that lets a quit key through to the match
KeyDismissErrorThenQuit(e) ==
    /\ IsSome(error)
    /\ error' = None
    /\ IF e.code \in {"q", "Q"}
         THEN should_exit' = TRUE /\ ui_pc' = "exited"
         ELSE UNCHANGED should_exit /\ ui_pc' = "update"
    /\ UNCHANGED <<s_hist, listVars, panelVars, focus, selected, responses, req_ch, res_ch,
                   w_pc, w_job, w_data, ui_pending, outstanding>>

\* app.rs:93-96: "Dismiss error", before the match on the key code
KeyDismissError(e) ==
    /\ IsSome(error)
    /\ error' = None
    /\ ui_pc' = "update"
    /\ UNCHANGED <<s_hist, listVars, panelVars, focus, selected, responses, should_exit, req_ch, res_ch,
                   w_pc, w_job, w_data, ui_pending, outstanding>>

\* mutant of IsQuitKey: Ctrl+C is not a quit key
IsQuitKeyNoCtrlC(e) == e.code \in {"q", "Q"}

IsQuitKey(e) ==
    \/ e.code \in {"q", "Q"}
    \/ e.code = "c" /\ e.mod = "CONTROL"

\* app.rs:99-106, then terminal.rs:68-70: run_app returns, the App is dropped
KeyQuit(e) ==
    /\ error = None
    /\ IsQuitKey(e)
    /\ should_exit' = TRUE
    /\ ui_pc' = "exited"
    /\ UNCHANGED <<s_hist, listVars, panelVars, focus, selected, responses, error, req_ch, res_ch,
                   w_pc, w_job, w_data, ui_pending, outstanding>>

\* a Down / j that moves the cursor of the list whatever the focus
KeyDownMovesCursor(e) ==
    /\ error = None
    /\ e.code \in {"Down", "j"}
    /\ selected' = ListNext(selected)
    /\ ui_pc' = "update"
    /\ UNCHANGED <<s_hist, listVars, panelVars, focus, responses, should_exit, error, req_ch, res_ch,
                   w_pc, w_job, w_data, ui_pending, outstanding>>

\* app.rs:107-112
KeyDown(e) ==
    /\ error = None
    /\ e.code \in {"Down", "j"}
    /\ \/ /\ focus = "RequestsList"
          /\ selected' = ListNext(selected)
          /\ UNCHANGED responses
       \/ /\ focus = "ResponseBuffer"
          /\ SelectedResponse.scroll < MaxScroll
          /\ responses' = [responses EXCEPT
                ![selected].scroll = SaturatingAdd1(SelectedResponse.scroll)]
          /\ UNCHANGED selected
    /\ ui_pc' = "update"
    /\ UNCHANGED <<s_hist, listVars, panelVars, focus, should_exit, error, req_ch, res_ch,
                   w_pc, w_job, w_data, ui_pending, outstanding>>

\* app.rs:113-118
KeyUp(e) ==
    /\ error = None
    /\ e.code \in {"Up", "k"}
    /\ \/ /\ focus = "RequestsList"
          /\ selected' = ListPrevious(selected)
          /\ UNCHANGED responses
       \/ /\ focus = "ResponseBuffer"
          /\ responses' = [responses EXCEPT
                ![selected].scroll = SaturatingSub1(SelectedResponse.scroll)]
          /\ UNCHANGED selected
    /\ ui_pc' = "update"
    /\ UNCHANGED <<s_hist, listVars, panelVars, focus, should_exit, error, req_ch, res_ch,
                   w_pc, w_job, w_data, ui_pending, outstanding>>

\* mutant of KeyEnterList: Enter in the list also submits the selected request
KeyEnterListSubmits(e) ==
    /\ error = None
    /\ e.code = "Enter"
    /\ focus = "RequestsList"
    /\ Len(req_ch) < ChannelCapacity
    /\ Len(outstanding) < MaxOutstanding
    /\ focus' = "ResponseBuffer"
    /\ req_ch' = Append(req_ch, ReqItem(Request(selected), selected, Len(outstanding) + 1))
    /\ outstanding' = Append(outstanding, selected)
    /\ ui_pc' = "update"
    /\ UNCHANGED <<s_hist, listVars, panelVars, selected, responses, should_exit, error, res_ch,
                   w_pc, w_job, w_data, ui_pending>>

\* app.rs:120-121
KeyEnterList(e) ==
    /\ error = None
    /\ e.code = "Enter"
    /\ focus = "RequestsList"
    /\ focus' = "ResponseBuffer"
    /\ ui_pc' = "update"
    /\ UNCHANGED <<s_hist, listVars, panelVars, selected, responses, should_exit, error, req_ch, res_ch,
                   w_pc, w_job, w_data, ui_pending, outstanding>>

\* mutant of SubmittedItem: the index of the first request instead of the selected one
SubmittedItemFirstIndex == ReqItem(Request(selected), 0, Len(outstanding) + 1)
\* a submission that carries the position counted from one
SubmittedItemOneBased == ReqItem(Request(selected), selected + 1, Len(outstanding) + 1)
\* the item of app.rs:124: (self.list.selected().clone(), self.list.selected_index())
SubmittedItem == ReqItem(Request(selected), selected, Len(outstanding) + 1)

\* mutant of KeyEnterSend: the send never suspends (an unbounded channel)
KeyEnterSendUnbounded(e) ==
    /\ error = None
    /\ e.code = "Enter"
    /\ focus = "ResponseBuffer"
    /\ Len(outstanding) < MaxOutstanding
    /\ outstanding' = Append(outstanding, selected)
    /\ req_ch' = Append(req_ch, ReqItem(Request(selected), selected, Len(outstanding) + 1))
    /\ ui_pc' = "update"
    /\ UNCHANGED <<s_hist, listVars, panelVars, focus, selected, responses, should_exit, error, res_ch,
                   w_pc, w_job, w_data, ui_pending>>

\* app.rs:122-126: req_tx.send(..).await; it returns at once when the request
\* channel has room and otherwise suspends on_event (and run_app with it)
KeyEnterSend(e) ==
    /\ error = None
    /\ e.code = "Enter"
    /\ focus = "ResponseBuffer"
    /\ Len(outstanding) < MaxOutstanding
    /\ outstanding' = Append(outstanding, selected)
    /\ IF Len(req_ch) < ChannelCapacity
         THEN /\ req_ch' = Append(req_ch, SubmittedItem)
              /\ ui_pc' = "update"
              /\ UNCHANGED ui_pending
         ELSE /\ ui_pending' = Some(SubmittedItem)
              /\ ui_pc' = "send"
              /\ UNCHANGED req_ch
    /\ UNCHANGED <<s_hist, listVars, panelVars, focus, selected, responses, should_exit, error, res_ch,
                   w_pc, w_job, w_data>>

\* the suspended req_tx.send(..).await of app.rs:123-125 completes
SendCompletes ==
    /\ ui_pc = "send"
    /\ Len(req_ch) < ChannelCapacity
    /\ req_ch' = Append(req_ch, Unwrap(ui_pending))
    /\ ui_pending' = None
    /\ ui_pc' = "update"
    /\ UNCHANGED <<s_hist, listVars, panelVars, focus, selected, responses, should_exit, error, res_ch,
                   w_pc, w_job, w_data, outstanding>>

\* mutant of KeyEsc: Esc also cancels the request waiting in the channel
KeyEscCancels(e) ==
    /\ error = None
    /\ e.code = "Esc"
    /\ focus = "ResponseBuffer"
    /\ focus' = "RequestsList"
    /\ req_ch' = <<>>
    /\ ui_pc' = "update"
    /\ UNCHANGED <<s_hist, listVars, panelVars, selected, responses, should_exit, error, res_ch,
                   w_pc, w_job, w_data, ui_pending, outstanding>>

\* app.rs:128-130
KeyEsc(e) ==
    /\ error = None
    /\ e.code = "Esc"
    /\ focus = "ResponseBuffer"
    /\ focus' = "RequestsList"
    /\ ui_pc' = "update"
    /\ UNCHANGED <<s_hist, listVars, panelVars, selected, responses, should_exit, error, req_ch, res_ch,
                   w_pc, w_job, w_data, ui_pending, outstanding>>

\* app.rs:131-140 with save_body_to_file (154-160) and save_to_file (146-152):
\* std::fs::write("response.http", ..) succeeds, or it fails and the error is
\* shown.  The bytes written are never read back and are no state of the App.
\* a save whose write failure ends the event loop
KeySaveFatal(e) ==
    /\ error = None
    /\ e.code \in {"s", "S"}
    /\ \/ ui_pc' = "update" /\ UNCHANGED <<error, should_exit>>
       \/ ui_pc' = "exited" /\ should_exit' = TRUE /\ error' = Some("write failed")
    /\ UNCHANGED <<s_hist, listVars, panelVars, focus, selected, responses, req_ch, res_ch,
                   w_pc, w_job, w_data, ui_pending, outstanding>>

KeySave(e) ==
    /\ error = None
    /\ e.code \in {"s", "S"}
    /\ \/ UNCHANGED error
       \/ error' = Some("write failed")
    /\ ui_pc' = "update"
    /\ UNCHANGED <<s_hist, listVars, panelVars, focus, selected, responses, should_exit, req_ch, res_ch,
                   w_pc, w_job, w_data, ui_pending, outstanding>>

\* app.rs:102-106 (c without Control), 119 (h, l, Left, Right), 128 (Esc in the
\* list: the guard fails) and 141 (_): nothing changes
KeyIgnored(e) ==
    /\ error = None
    /\ ~IsQuitKey(e)
    /\ e.code \notin {"Down", "j", "Up", "k", "Enter", "s", "S"}
    /\ e.code = "Esc" => focus # "ResponseBuffer"
    /\ ui_pc' = "update"
    /\ UNCHANGED <<s_hist, listVars, panelVars, focus, selected, responses, should_exit, error, req_ch,
                   res_ch, w_pc, w_job, w_data, ui_pending, outstanding>>

\* App::on_event (app.rs:278-283) for a key event e read by run_app
OnKeyEvent(e) ==
    /\ ui_pc = "poll"
    /\ \/ KeyDismissError(e)
       \/ KeyQuit(e)
       \/ KeyDown(e)
       \/ KeyUp(e)
       \/ KeyEnterList(e)
       \/ KeyEnterSend(e)
       \/ KeyEsc(e)
       \/ KeySave(e)
       \/ KeyIgnored(e)

\* crossterm::event::poll(timeout) returns false (terminal.rs:66)
PollTimeout ==
    /\ ui_pc = "poll"
    /\ ui_pc' = "update"
    /\ UNCHANGED <<s_hist, listVars, panelVars, focus, selected, responses, should_exit, error, req_ch,
                   res_ch, w_pc, w_job, w_data, ui_pending, outstanding>>

\* App::update (app.rs:267-272), once per iteration of run_app (terminal.rs:60)
\* an update that never takes a result from the result channel
UpdateNoDrain ==
    /\ ui_pc = "update"
    /\ ui_pc' = "poll"
    /\ UNCHANGED <<s_hist, listVars, panelVars, focus, selected, responses, should_exit, error, req_ch,
                   res_ch, w_pc, w_job, w_data, ui_pending, outstanding>>

Update ==
    /\ ui_pc = "update"
    /\ IF res_ch # <<>>
         THEN /\ responses' = [responses EXCEPT
                    ![Head(res_ch).i] = ResponseComponentNew(Head(res_ch).data)]
              /\ res_ch' = RerankAll(Tail(res_ch), Head(res_ch).id)
              /\ req_ch' = RerankAll(req_ch, Head(res_ch).id)
              /\ w_job' = [w \in Workers |-> RerankAll(w_job[w], Head(res_ch).id)]
              /\ outstanding' = RemoveAt(outstanding, Head(res_ch).id)
         ELSE UNCHANGED <<responses, res_ch, req_ch, w_job, outstanding>>
    /\ ui_pc' = "poll"
    /\ UNCHANGED <<s_hist, listVars, panelVars, focus, selected, should_exit, error,
                   w_pc, w_data, ui_pending>>

Next ==
    \/ Update
    \/ \E e \in AppKeys : OnKeyEvent(e)
    \/ PollTimeout
    \/ SendCompletes
    \/ \E w \in Workers : WorkerRecv(w)
    \/ \E w \in Workers : WorkerExecute(w)
    \/ \E w \in Workers : WorkerSend(w)
    \/ \E w \in Workers : WorkerSendFails(w)
    \/ \E w \in Workers : WorkerStop(w)
    \/ DropResRx
    \/ DropReqTx

Spec == Init /\ [][Next]_vars


(***************************************************************************)
(* PanelSpec: ResponsePanel (components/response_panel.rs), Menu           *)
(* (components/menu.rs), Input (components/input.rs over tui_input) and    *)
(* MessageDialog (components/message_dialog.rs).                           *)
(*                                                                         *)
(* A string is a sequence of tokens; "\n" is the line-feed token.          *)
(***************************************************************************)
PanelKeys ==
    { Key(c, "NONE") : c \in {"s", "j", "Down", "Up", "Enter", "Esc", "Backspace"} }
    \cup { Key("s", "CONTROL"), Key("S", "SHIFT") }

\* the responses a panel is loaded with: a Text and a Bytes payload
TextResponse ==
    [version |-> "HTTP/1.1", status |-> "200",
     headers |-> << <<"content-type", "text/plain">> >>,
     payload |-> [kind |-> "Text", charset |-> "utf-8", bytes |-> <<"o", "\n", "k", "\n">>]]
BytesResponse ==
    [version |-> "HTTP/1.1", status |-> "200",
     headers |-> <<>>,
     payload |-> [kind |-> "Bytes", charset |-> "", bytes |-> <<"0xff", "\n", "0xfe">>]]
PanelResponses == {TextResponse, BytesResponse}

\* str::lines(): split at "\n"; a final line feed does not start another line
RECURSIVE LinesFrom(_, _)
LinesFrom(text, cur) ==
    IF text = <<>> THEN (IF cur = <<>> THEN <<>> ELSE <<cur>>)
    ELSE IF Head(text) = "\n" THEN <<cur>> \o LinesFrom(Tail(text), <<>>)
    ELSE LinesFrom(Tail(text), Append(cur, Head(text)))
Lines(text) == LinesFrom(text, <<>>)

\* [String]::join("\n")
RECURSIVE JoinLines(_)
JoinLines(ls) ==
    IF ls = <<>> THEN <<>>
    ELSE IF Len(ls) = 1 THEN ls[1]
    ELSE ls[1] \o <<"\n">> \o JoinLines(Tail(ls))

\* ResponsePanel::body_as_string (response_panel.rs:111-128), show_raw = false
BodyAsString(content) ==
    IF content = None THEN << <<"Request not sent">> >>
    ELSE LET body == Unwrap(content).payload IN
         IF body.kind = "Text"
           THEN << <<"decoded with encoding: '", body.charset, "'">> >> \o Lines(body.bytes)
           ELSE << <<"raw bytes">> >>

\* the fold of response_panel.rs:90-96: one "k: v\n" per header
RECURSIVE HeaderLines(_)
HeaderLines(hs) ==
    IF hs = <<>> THEN <<>>
    ELSE <<hs[1][1], ": ", hs[1][2], "\n">> \o HeaderLines(Tail(hs))

\* ResponsePanel::to_string (response_panel.rs:87-109) of a loaded panel
PanelToString(content) ==
    LET response == Unwrap(content) IN
    <<response.version, " ", response.status, "\n">> \o HeaderLines(response.headers)
        \o <<"\n", "\n">> \o JoinLines(BodyAsString(content))

\* a to_save that writes the body as the panel displays it
ToSaveDisplayed(option, content) ==
    IF option = "All" THEN PanelToString(content) ELSE JoinLines(BodyAsString(content))
\* the bytes of response_panel.rs:150-156 for a loaded panel
ToSave(option, content) ==
    IF option = "All" THEN PanelToString(content) ELSE Unwrap(content).payload.bytes

\* SaveOption::iterator() (response_panel.rs:29-33): the items of the save menu
SaveOptions == <<"All", "Body">>

\* Menu::next / Menu::previous (menu.rs:27-36)
MenuNext(idx) == (idx + 1) % Len(SaveOptions)
MenuPrevious(idx) == IF idx = 0 THEN Len(SaveOptions) - 1 ELSE idx - 1
\* a selected() that returns the first item whatever is highlighted
MenuSelectedFirst(idx) == SaveOptions[1]
\* Menu::selected (menu.rs:38-40)
MenuSelected(idx) == SaveOptions[idx + 1]

\* tui_input's to_input_request for the keys of PanelKeys, the cursor at the end
\* of the value (no key of PanelKeys moves it): an unmodified or shifted
\* character is inserted, Backspace deletes the previous character
InputRequest(e) ==
    IF e.code \notin {"Down", "Up", "Enter", "Esc", "Backspace"} /\ e.mod \in {"NONE", "SHIFT"}
      THEN "InsertChar"
    ELSE IF e.code = "Backspace" /\ e.mod = "NONE" THEN "DeletePrevChar"
    ELSE "None"

\* Input::on_event (input.rs:14-19): Consumed iff handle_event changed the input
InputConsumes(value, e) ==
    \/ InputRequest(e) = "InsertChar"
    \/ InputRequest(e) = "DeletePrevChar" /\ value # <<>>

InputHandle(value, e) ==
    IF InputRequest(e) = "InsertChar" THEN Append(value, e.code)
    ELSE IF InputRequest(e) = "DeletePrevChar" /\ value # <<>>
      THEN SubSeq(value, 1, Len(value) - 1)
    ELSE value

\* Menu::on_event (menu.rs:47-56)
MenuConsumes(e) == e.code \in {"j", "Down", "k", "Up"}
MenuHandle(idx, e) ==
    IF e.code \in {"j", "Down"} THEN MenuNext(idx)
    ELSE IF e.code \in {"k", "Up"} THEN MenuPrevious(idx)
    ELSE idx

\* a push_message that queues at the front
PushMessageFront(queue, m) == <<m>> \o queue
\* a push_message that queues the message twice
PushMessageTwice(queue, m) == Append(Append(queue, m), m)
\* MessageDialog::push_message (message_dialog.rs:35-37)
PushMessage(queue, m) == Append(queue, m)
Info(text) == [kind |-> "Info", text |-> text]


(***************************************************************************)
(* ResponsePanel::on_event (response_panel.rs:139-207).  A key that the    *)
(* open popup neither consumes nor matches (Enter, Esc) falls through to   *)
(* the next block of the function.                                         *)
(***************************************************************************)
\* lines 140-172 are passed: no path input, or it ignored a key other than Enter/Esc
InputFallsThrough(e) ==
    IF p_input = None THEN TRUE
    ELSE ~InputConsumes(Unwrap(p_input), e) /\ e.code \notin {"Enter", "Esc"}

\* lines 174-195 are passed: no save menu, or it ignored a key other than Enter/Esc
MenuFallsThrough(e) ==
    IF p_menu = None THEN TRUE
    ELSE ~MenuConsumes(e) /\ e.code \notin {"Enter", "Esc"}

\* response_panel.rs:140-144: the path input consumed the key
PanelInputTyped(e) ==
    /\ IsSome(p_input)
    /\ InputConsumes(Unwrap(p_input), e)
    /\ InputRequest(e) = "InsertChar" => Len(Unwrap(p_input)) < MaxPath
    /\ p_input' = Some(InputHandle(Unwrap(p_input), e))
    /\ p_result' = "Consumed"
    /\ UNCHANGED <<s_hist, listVars, appVars, p_content, p_scroll, p_save_option, p_menu, MESSAGES,
                   dialog, written>>

\* an Enter in the path input that saves what the panel displays, the
\* placeholder of a panel without content included
PanelInputEnterSavesDisplayed(e) ==
    /\ IsSome(p_input)
    /\ ~InputConsumes(Unwrap(p_input), e)
    /\ e.code = "Enter"
    /\ Unwrap(p_input) # <<>>
    /\ Len(MESSAGES) < MaxMessages
    /\ written' = Some([path |-> Unwrap(p_input), bytes |-> JoinLines(BodyAsString(p_content))])
    /\ p_input' = None
    /\ MESSAGES' = Append(MESSAGES, [kind |-> "Info", text |-> <<"Saved to ">> \o Unwrap(p_input)])
    /\ p_result' = "Consumed"
    /\ UNCHANGED <<s_hist, listVars, appVars, p_content, p_scroll, p_save_option, p_menu, dialog>>

\* an Enter in the path input that closes the input before it writes
PanelInputEnterClosesFirst(e) ==
    /\ IsSome(p_input)
    /\ ~InputConsumes(Unwrap(p_input), e)
    /\ e.code = "Enter"
    /\ IsSome(p_content)
    /\ p_input' = None
    /\ \/ /\ p_result' = "Err: write failed"
          /\ UNCHANGED <<MESSAGES, written>>
       \/ /\ Unwrap(p_input) # <<>>
          /\ Len(MESSAGES) < MaxMessages
          /\ written' = Some([path |-> Unwrap(p_input),
                              bytes |-> Unwrap(p_content).payload.bytes])
          /\ MESSAGES' = Append(MESSAGES, [kind |-> "Info", text |-> <<"Saved to ">> \o Unwrap(p_input)])
          /\ p_result' = "Consumed"
    /\ UNCHANGED <<s_hist, listVars, appVars, p_content, p_scroll, p_save_option, p_menu, dialog>>

\* an Enter in the path input whose write succeeds on the empty path too
PanelInputEnterAnyPath(e) ==
    /\ IsSome(p_input)
    /\ ~InputConsumes(Unwrap(p_input), e)
    /\ e.code = "Enter"
    /\ IsSome(p_content)
    /\ Len(MESSAGES) < MaxMessages
    /\ written' = Some([path |-> Unwrap(p_input),
                        bytes |-> Unwrap(p_content).payload.bytes])
    /\ p_input' = None
    /\ MESSAGES' = Append(MESSAGES, [kind |-> "Info", text |-> <<"Saved to ">> \o Unwrap(p_input)])
    /\ p_result' = "Consumed"
    /\ UNCHANGED <<s_hist, listVars, appVars, p_content, p_scroll, p_save_option, p_menu, dialog>>

\* response_panel.rs:147-164: Enter in the path input.  to_string()? / body()?
\* fail on a panel without content; std::fs::write fails on the empty path and
\* may fail on any other; `?` returns the error with the panel as it was
PanelInputEnter(e) ==
    /\ IsSome(p_input)
    /\ ~InputConsumes(Unwrap(p_input), e)
    /\ e.code = "Enter"
    /\ LET file_path == Unwrap(p_input) IN
       \/ /\ p_content = None
          /\ p_result' = "Err: Request not sent"
          /\ UNCHANGED <<p_input, MESSAGES, written>>
       \/ /\ IsSome(p_content)
          /\ p_result' = "Err: write failed"
          /\ UNCHANGED <<p_input, MESSAGES, written>>
       \/ /\ IsSome(p_content)
          /\ file_path # <<>>
          /\ Len(MESSAGES) < MaxMessages
          /\ written' = Some([path |-> file_path,
                              bytes |-> ToSave(p_save_option, p_content)])
          /\ p_input' = None
          /\ MESSAGES' = PushMessage(MESSAGES, Info(<<"Saved to ">> \o file_path))
          /\ p_result' = "Consumed"
    /\ UNCHANGED <<s_hist, listVars, appVars, p_content, p_scroll, p_save_option, p_menu, dialog>>

\* an Esc in the path input that goes one step back, to the save menu
PanelInputEscReopensMenu(e) ==
    /\ IsSome(p_input)
    /\ ~InputConsumes(Unwrap(p_input), e)
    /\ e.code = "Esc"
    /\ p_input' = None
    /\ p_menu' = Some(0)
    /\ p_result' = "Consumed"
    /\ UNCHANGED <<s_hist, listVars, appVars, p_content, p_scroll, p_save_option, MESSAGES,
                   dialog, written>>

\* response_panel.rs:165-169: Esc in the path input
PanelInputEsc(e) ==
    /\ IsSome(p_input)
    /\ ~InputConsumes(Unwrap(p_input), e)
    /\ e.code = "Esc"
    /\ p_input' = None
    /\ p_result' = "Consumed"
    /\ UNCHANGED <<s_hist, listVars, appVars, p_content, p_scroll, p_save_option, p_menu, MESSAGES,
                   dialog, written>>

\* response_panel.rs:174-178: the save menu consumed the key
PanelMenuMoved(e) ==
    /\ InputFallsThrough(e)
    /\ IsSome(p_menu)
    /\ MenuConsumes(e)
    /\ p_menu' = Some(MenuHandle(Unwrap(p_menu), e))
    /\ p_result' = "Consumed"
    /\ UNCHANGED <<s_hist, listVars, appVars, p_content, p_scroll, p_input, p_save_option, MESSAGES,
                   dialog, written>>

\* response_panel.rs:181-187: Enter in the save menu
PanelMenuEnter(e) ==
    /\ InputFallsThrough(e)
    /\ IsSome(p_menu)
    /\ ~MenuConsumes(e)
    /\ e.code = "Enter"
    /\ p_save_option' = MenuSelected(Unwrap(p_menu))
    /\ p_menu' = None
    /\ p_input' = Some(<<>>)
    /\ p_result' = "Consumed"
    /\ UNCHANGED <<s_hist, listVars, appVars, p_content, p_scroll, MESSAGES, dialog, written>>

\* response_panel.rs:188-192: Esc in the save menu
PanelMenuEsc(e) ==
    /\ InputFallsThrough(e)
    /\ IsSome(p_menu)
    /\ ~MenuConsumes(e)
    /\ e.code = "Esc"
    /\ p_menu' = None
    /\ p_result' = "Consumed"
    /\ UNCHANGED <<s_hist, listVars, appVars, p_content, p_scroll, p_input, p_save_option, MESSAGES,
                   dialog, written>>

\* response_panel.rs:197-206: the match of the panel itself
PanelViewKey(e) ==
    /\ InputFallsThrough(e)
    /\ MenuFallsThrough(e)
    /\ \/ /\ e.code \in {"Down", "j"}
          /\ p_scroll < MaxScroll
          /\ p_scroll' = SaturatingAdd1(p_scroll)
          /\ p_result' = "Consumed"
          /\ UNCHANGED p_menu
       \/ /\ e.code \in {"Up", "k"}
          /\ p_scroll' = SaturatingSub1(p_scroll)
          /\ p_result' = "Consumed"
          /\ UNCHANGED p_menu
       \/ /\ e.code = "s"
          /\ p_menu' = Some(0)
          /\ p_result' = "Consumed"
          /\ UNCHANGED p_scroll
       \/ /\ e.code \notin {"Down", "j", "Up", "k", "s"}
          /\ p_result' = "Ignored"
          /\ UNCHANGED <<p_scroll, p_menu>>
    /\ UNCHANGED <<s_hist, listVars, appVars, p_content, p_input, p_save_option, MESSAGES, dialog, written>>

PanelOnEvent(e) ==
    \/ PanelInputTyped(e)
    \/ PanelInputEnter(e)
    \/ PanelInputEsc(e)
    \/ PanelMenuMoved(e)
    \/ PanelMenuEnter(e)
    \/ PanelMenuEsc(e)
    \/ PanelViewKey(e)

\* a merge that replaces the content alone and keeps the rest of the panel
PanelFromKeepsState(value) ==
    /\ p_content' = Some(value)
    /\ UNCHANGED <<s_hist, listVars, appVars, p_scroll, p_input, p_save_option, p_menu, p_result,
                   MESSAGES, dialog, written>>

\* From<Response> for ResponsePanel (response_panel.rs:60-69): the panel is
\* replaced by a default one that holds the response
PanelFrom(value) ==
    /\ p_content' = Some(value)
    /\ p_scroll' = 0
    /\ p_input' = None
    /\ p_save_option' = "All"
    /\ p_menu' = None
    /\ UNCHANGED <<s_hist, listVars, appVars, p_result, MESSAGES, dialog, written>>

\* an update that promotes the oldest queued message over the active one
DialogUpdateOverActive ==
    /\ MESSAGES # <<>>
    /\ dialog' = Some(Head(MESSAGES))
    /\ MESSAGES' = Tail(MESSAGES)
    /\ UNCHANGED <<s_hist, listVars, appVars, p_content, p_scroll, p_input, p_save_option, p_menu,
                   p_result, written>>

\* MessageDialog::update (message_dialog.rs:51-57)
DialogUpdate ==
    /\ IF IsSome(dialog)
         THEN UNCHANGED <<dialog, MESSAGES>>
         ELSE /\ dialog' = (IF MESSAGES = <<>> THEN None ELSE Some(Head(MESSAGES)))
              /\ MESSAGES' = (IF MESSAGES = <<>> THEN <<>> ELSE Tail(MESSAGES))
    /\ UNCHANGED <<s_hist, listVars, appVars, p_content, p_scroll, p_input, p_save_option, p_menu,
                   p_result, written>>

\* MessageDialog::on_event (message_dialog.rs:41-49): any key dismisses
DialogOnEvent(e) ==
    /\ IF IsSome(dialog) THEN dialog' = None ELSE UNCHANGED dialog
    /\ UNCHANGED <<s_hist, listVars, appVars, p_content, p_scroll, p_input, p_save_option, p_menu,
                   p_result, MESSAGES, written>>

PanelNext ==
    \/ \E e \in PanelKeys : PanelOnEvent(e)
    \/ \E r \in PanelResponses : PanelFrom(r)
    \/ DialogUpdate
    \/ \E e \in PanelKeys : DialogOnEvent(e)

PanelSpec == Init /\ [][PanelNext]_vars


(***************************************************************************)
(* QueueSpec: the shared queue MESSAGES (message_dialog.rs:17-19) with its *)
(* dialog.  push_message is an associated function any task can call; the  *)
(* Mutex makes each push_back and each pop_front one step.  The UI task    *)
(* pushes Info messages, another task (the request worker) Error messages; *)
(* the UI task ticks (update) and handles keys (on_event).                 *)
(***************************************************************************)
InfoMessages == { Info(<<"Saved to ", x>>) : x \in {"s", "j"} }
ErrorMessages == { [kind |-> "Error", text |-> <<x>>] : x \in {"timed out", "refused", "dns"} }

\* MessageDialog::push_message called on the UI task
PushFromUi(m) ==
    /\ Len(MESSAGES) < MaxMessages
    /\ MESSAGES' = PushMessage(MESSAGES, m)
    /\ UNCHANGED <<s_hist, listVars, appVars, p_content, p_scroll, p_input, p_save_option, p_menu,
                   p_result, dialog, written>>

\* MessageDialog::push_message called on another task
PushFromWorker(m) ==
    /\ Len(MESSAGES) < MaxMessages
    /\ MESSAGES' = PushMessage(MESSAGES, m)
    /\ UNCHANGED <<s_hist, listVars, appVars, p_content, p_scroll, p_input, p_save_option, p_menu,
                   p_result, dialog, written>>

QueueNext ==
    \/ \E m \in InfoMessages : PushFromUi(m)
    \/ \E m \in ErrorMessages : PushFromWorker(m)
    \/ DialogUpdate
    \/ \E e \in PanelKeys : DialogOnEvent(e)

\* the ticks continue and a shown message is eventually dismissed
QueueFairness ==
    /\ WF_vars(DialogUpdate)
    /\ WF_vars(\E e \in PanelKeys : DialogOnEvent(e))

QueueSpec == Init /\ [][QueueNext]_vars /\ QueueFairness

(***************************************************************************)
(* ScrollSpec: scroll_down and scroll_up of a panel                        *)
(* (response_panel.rs:72-78; ResponseComponent of ui.rs:87-93 has the same *)
(* two bodies) over the u16 offset, started at any offset within           *)
(* MaxFromEdge of either end of the u16 range and kept there.              *)
(***************************************************************************)
ScrollStarts == (0..MaxFromEdge) \cup ((U16Max - MaxFromEdge)..U16Max)

\* history: the operation and the offset it was applied to, the latest MaxHist
Remember(op) ==
    LET h == Append(s_hist, [op |-> op, from |-> p_scroll])
    IN  IF Len(h) > MaxHist THEN Tail(h) ELSE h

ScrollInit ==
    /\ InitAppVars
    /\ InitListVars(NumRequests)
    /\ p_content = None
    /\ p_scroll \in ScrollStarts
    /\ p_input = None
    /\ p_save_option = "All"
    /\ p_menu = None
    /\ p_result = "Ignored"
    /\ MESSAGES = <<>>
    /\ dialog = None
    /\ written = None
    /\ s_hist = <<>>

\* ResponsePanel::scroll_down (response_panel.rs:72-74)
ScrollDown ==
    /\ p_scroll # MaxFromEdge
    /\ p_scroll' = SaturatingAdd1(p_scroll)
    /\ s_hist' = Remember("down")
    /\ UNCHANGED <<listVars, appVars, p_content, p_input, p_save_option, p_menu, p_result,
                   MESSAGES, dialog, written>>

\* ResponsePanel::scroll_up (response_panel.rs:76-78)
ScrollUp ==
    /\ p_scroll # U16Max - MaxFromEdge
    /\ p_scroll' = SaturatingSub1(p_scroll)
    /\ s_hist' = Remember("up")
    /\ UNCHANGED <<listVars, appVars, p_content, p_input, p_save_option, p_menu, p_result,
                   MESSAGES, dialog, written>>

ScrollNext ==
    \/ ScrollDown
    \/ ScrollUp

ScrollSpec == ScrollInit /\ [][ScrollNext]_vars

(***************************************************************************)
(* ListSpec: one StatefulList (ui.rs:13-59) over a list of any length, as  *)
(* App::new builds it from the parsed file, driven by next, previous and   *)
(* selected in any order.                                                  *)
(***************************************************************************)
\* history: the run of consecutive equal operations the cursor is in
Run(op) ==
    IF l_run.op = op /\ l_run.count < l_len
      THEN [l_run EXCEPT !.count = @ + 1]
      ELSE [op |-> op, start |-> Unwrap(l_selected), count |-> 1]

\* StatefulList::next (ui.rs:26-32): (i + 1) % 0 panics on an empty list
StatefulListNext ==
    /\ l_status = "ok"
    /\ IF IsSome(l_selected) /\ l_len = 0
         THEN l_status' = "panicked" /\ UNCHANGED <<l_selected, l_run>>
         ELSE /\ l_selected' = Some(NextIndex(l_selected, l_len))
              /\ l_run' = Run("next")
              /\ UNCHANGED l_status
    /\ UNCHANGED <<s_hist, appVars, panelVars, l_len, l_read>>

\* StatefulList::previous (ui.rs:34-41): items.len() - 1 on an empty list
\* panics where overflow is checked and wraps where it is not
StatefulListPrevious ==
    /\ l_status = "ok"
    /\ IsSome(l_selected) => Unwrap(l_selected) > -MaxWrapped
    /\ \/ /\ l_selected' = Some(PreviousIndex(l_selected, l_len))
          /\ l_run' = Run("previous")
          /\ UNCHANGED l_status
       \/ /\ l_selected = Some(0) /\ l_len = 0
          /\ l_status' = "panicked"
          /\ UNCHANGED <<l_selected, l_run>>
    /\ UNCHANGED <<s_hist, appVars, panelVars, l_len, l_read>>

\* StatefulList::selected (ui.rs:43-46): &self.items[i], i = selected or 0
StatefulListSelected ==
    /\ l_status = "ok"
    /\ LET i == IF IsSome(l_selected) THEN Unwrap(l_selected) ELSE 0 IN
       IF i \in 0..(l_len - 1)
         THEN l_read' = Some(i) /\ UNCHANGED l_status
         ELSE l_status' = "panicked" /\ UNCHANGED l_read
    /\ UNCHANGED <<s_hist, appVars, panelVars, l_len, l_selected, l_run>>

\* App::new over a parsed file of any number of requests, none included
ListInit ==
    /\ InitAppVars /\ InitPanelVars /\ s_hist = <<>>
    /\ \E n \in 0..MaxListLen : InitListVars(n)

ListSpecNext ==
    \/ StatefulListNext
    \/ StatefulListPrevious
    \/ StatefulListSelected

ListSpec == ListInit /\ [][ListSpecNext]_vars

(***************************************************************************)
(* The fairness the scheduling gives (FairSpec): the tokio runtime runs    *)
(* the worker task, the transport call returns (reqwest's 10 s timeout),   *)
(* run_app's loop goes on: update, then a poll that ends in a key event or *)
(* in its timeout; and the drop of the App, once begun, completes.         *)
(***************************************************************************)
PollEnds == PollTimeout \/ \E e \in AppKeys : OnKeyEvent(e)

Fairness ==
    /\ WF_vars(Update)
    /\ WF_vars(PollEnds)
    /\ WF_vars(SendCompletes)
    /\ \A w \in Workers :
          /\ WF_vars(WorkerRecv(w))
          /\ WF_vars(WorkerExecute(w))
          /\ WF_vars(WorkerSend(w))
          /\ WF_vars(WorkerSendFails(w))
          /\ WF_vars(WorkerStop(w))
    /\ WF_vars(DropResRx)
    /\ WF_vars(DropReqTx)

FairSpec == Init /\ [][Next]_vars /\ Fairness

(***************************************************************************)
(* Claims.                                                                 *)
(***************************************************************************)
\* the step is an App::update that merges a result
UpdateMerges == ui_pc = "update" /\ ui_pc' = "poll" /\ res_ch # <<>>

\* the submissions accepted by the request channel and not merged yet (a
\* submission whose send is still suspended is outstanding, not accepted)
AcceptedUndrained == Len(outstanding) - (IF ui_pc = "send" THEN 1 ELSE 0)

\* C1: there is one worker task and never a second one, and at most one
\* transport call (execute) is in progress at any time, whatever the
\* interleaving of Enter submissions and worker steps.
C1_OneTransportCall ==
    /\ Cardinality(DOMAIN w_pc) = 1
    /\ Cardinality({w \in DOMAIN w_pc : w_pc[w] = "exec"}) <= 1

\* a transport call is in progress while a later submission waits in the channel
C1_Witness == req_ch # <<>> /\ \E w \in DOMAIN w_pc : w_pc[w] = "exec"

C3_MergedIntoSubmittedPanel ==
    [][ UpdateMerges =>
          LET r == Head(res_ch) IN
          /\ r.i = outstanding[r.id]
          /\ responses' = [responses EXCEPT
                ![outstanding[r.id]] = ResponseComponentNew(r.data)] ]_vars

\* a result submitted from panel 1 has been merged, panel 0 (selected again by
\* Esc and k before the update) still empty
C3_Witness ==
    /\ ui_pc = "poll"
    /\ selected = 0 /\ focus = "RequestsList"
    /\ IsSome(responses[1].response) /\ responses[0].response = None
    /\ outstanding = <<>>

\* C4: results are merged in the order of their submissions: every merging
\* update merges the result of the oldest submission not merged yet.
C4_MergedInSubmissionOrder ==
    [][ UpdateMerges =>
          /\ Head(res_ch).id = 1
          /\ outstanding' = Tail(outstanding) ]_vars

\* A's result waits in the result channel, B's result is ready behind it and
\* a third submission is queued
C4_Witness ==
    /\ res_ch # <<>> /\ req_ch # <<>>
    /\ \E w \in DOMAIN w_pc : w_pc[w] = "send"
    /\ \E k \in 1..Len(outstanding) : outstanding[k] # outstanding[1]

\* C5 as stated: a failed transport call delivers nothing to the result
\* channel, so no panel ever takes an error result (the panel stays as it was
\* before the submission).
C5_FailureDeliversNothing ==
    /\ \A k \in DOMAIN res_ch : res_ch[k].data.kind # "err"
    /\ \A i \in Indices : responses[i].response # None
                             => Unwrap(responses[i].response).kind # "err"

\* C6 as stated: on_event never waits for a transport call: the event loop is
\* never suspended in the Enter submit while the worker is inside execute.
C6_OnEventNeverWaitsForTransport ==
    ~(ui_pc = "send" /\ \E w \in DOMAIN w_pc : w_pc[w] = "exec")

\* the update that merges the oldest outstanding submission into its panel
MergeOldest ==
    /\ UpdateMerges
    /\ Head(res_ch).id = 1
    /\ responses' = [responses EXCEPT
          ![outstanding[1]] = ResponseComponentNew(Head(res_ch).data)]
    /\ outstanding' = Tail(outstanding)

\* C7: under FairSpec every submission is eventually merged into its panel (a
\* failure too: its error is the merged result), unless the user quits: while
\* a submission is outstanding the oldest one is eventually merged, and a
\* submission leaves the outstanding ones only by that merge, every other one
\* moving up by one; no key event removes one.
C7_EverySubmissionMerged ==
    /\ \/ []<>(outstanding = <<>> \/ should_exit)
       \/ []<><<MergeOldest>>_vars
    /\ [][ outstanding' # outstanding =>
             \/ MergeOldest
             \/ \E i \in Indices : outstanding' = Append(outstanding, i) ]_vars

\* two submissions from different panels are outstanding, then Esc and a
\* selection change
C7_Witness ==
    /\ AcceptedUndrained = 2
    /\ outstanding[1] # outstanding[2]
    /\ focus = "RequestsList" /\ selected # outstanding[2]

\* the item (selected request, selected index) is submitted, and nothing else
C8_Submits(item) ==
    \/ req_ch' = Append(req_ch, item) /\ UNCHANGED ui_pending
    \/ ui_pending' = Some(item) /\ UNCHANGED req_ch

\* C8: the focus router (the match of on_key_event, reached when no error popup
\* takes the key): the initial focus is RequestsList; Enter in RequestsList
\* sets focus to ResponseBuffer and submits nothing; Enter in ResponseBuffer
\* submits exactly (selected request, selected index) and keeps the focus; Esc
\* in ResponseBuffer sets focus to RequestsList; Esc in RequestsList changes
\* nothing; no other key and no other step changes the focus.
C8_FocusRouter ==
    /\ focus = "RequestsList"
    /\ [][ /\ (ui_pc = "poll" /\ error = None) => \A e \in AppKeys : OnKeyEvent(e) =>
                /\ (e.code = "Enter" /\ focus = "RequestsList") =>
                      /\ focus' = "ResponseBuffer"
                      /\ UNCHANGED <<req_ch, ui_pending, outstanding>>
                /\ (e.code = "Enter" /\ focus = "ResponseBuffer") =>
                      /\ focus' = "ResponseBuffer"
                      /\ C8_Submits([req |-> Request(selected), i |-> selected,
                                     id |-> Len(outstanding) + 1])
                /\ (e.code = "Esc" /\ focus = "ResponseBuffer") =>
                      focus' = "RequestsList"
                /\ (e.code = "Esc" /\ focus = "RequestsList") =>
                      UNCHANGED <<focus, selected, responses, should_exit, error,
                                  req_ch, res_ch, ui_pending, outstanding>>
                /\ e.code \notin {"Enter", "Esc"} => focus' = focus
           /\ focus' # focus => \E e \in AppKeys : OnKeyEvent(e) ]_vars

\* Enter in the list, Enter in the buffer (a submission), Esc back to the list
C8_Witness == focus = "RequestsList" /\ outstanding # <<>> /\ selected = 1

\* C9 as stated: handling q, Q or Ctrl+C leaves should_exit true in every
\* reachable state, the error popup shown or not.
C9_Original ==
    [][ \A e \in AppKeys :
          ((e.code \in {"q", "Q"} \/ (e.code = "c" /\ e.mod = "CONTROL")) /\ OnKeyEvent(e))
             => should_exit' ]_vars

\* C9 amended: with no error popup shown, q, Q and Ctrl+C set should_exit (and
\* run_app returns) from either focus; with the error popup shown the key only
\* dismisses the popup and should_exit is unchanged.
C9_QuitKeys ==
    [][ \A e \in AppKeys :
          ((e.code \in {"q", "Q"} \/ (e.code = "c" /\ e.mod = "CONTROL")) /\ OnKeyEvent(e))
             => IF error = None
                  THEN should_exit' /\ ui_pc' = "exited"
                  ELSE should_exit' = should_exit /\ error' = None ]_vars

\* quit from the response buffer with requests still outstanding
C9_Witness == should_exit /\ focus = "ResponseBuffer" /\ outstanding # <<>>

\* C10 as stated: while the save menu or the path input of a panel is open, a
\* key event changes neither the scroll offset nor any other popup: with the
\* path input open the save menu stays as it is, and with only the save menu
\* open the path input appears by Enter alone.
C10_PopupsModal ==
    [][ \A e \in PanelKeys : PanelOnEvent(e) =>
          /\ (IsSome(p_input) \/ IsSome(p_menu)) => p_scroll' = p_scroll
          /\ IsSome(p_input) => p_menu' = p_menu
          /\ (IsSome(p_menu) /\ p_input = None /\ e.code # "Enter") => p_input' = None ]_vars

\* C11 as stated: for every number of parsed requests, none included, the
\* cursor of the list is a valid index in [0, N) and no list operation fails.
C11_CursorValid ==
    /\ l_status = "ok"
    /\ IsSome(l_selected)
    /\ Unwrap(l_selected) \in 0..(l_len - 1)

\* C12: in a list of N >= 1 requests the cursor is cyclic: after N
\* consecutive next operations, and after N consecutive previous operations,
\* it is back where the run started; next from N-1 gives 0, previous from 0
\* gives N-1, and every other step moves it by one.
C12_Cyclic ==
    /\ [](l_len >= 1 /\ l_run.count = l_len => l_selected = Some(l_run.start))
    /\ [][ l_len >= 1 =>
             /\ StatefulListNext =>
                   l_selected' = Some(IF Unwrap(l_selected) = l_len - 1 THEN 0
                                      ELSE Unwrap(l_selected) + 1)
             /\ StatefulListPrevious =>
                   l_selected' = Some(IF Unwrap(l_selected) = 0 THEN l_len - 1
                                      ELSE Unwrap(l_selected) - 1) ]_vars

\* a full run of previous operations over the longest list, started in the middle
C12_Witness ==
    /\ l_len = MaxListLen
    /\ l_run = [op |-> "previous", start |-> 1, count |-> MaxListLen]

\* the states of the save flow of a panel
Viewing == p_menu = None /\ p_input = None
ChoosingSaveMode == IsSome(p_menu) /\ p_input = None
EnteringPath == p_menu = None /\ IsSome(p_input)

\* C13 as stated: in Viewing, a key event s and a key event S each open the
\* save menu, its first item highlighted, its items the entire response and
\* the body only.
C13_SaveKeysOpenMenu ==
    [][ \A e \in PanelKeys :
          (Viewing /\ e.code \in {"s", "S"} /\ PanelOnEvent(e))
             => /\ p_menu' = Some(0)
                /\ SaveOptions = <<"All", "Body">> ]_vars

C16_EmptyPathFails ==
    [][ \A e \in PanelKeys :
          (EnteringPath /\ p_input = Some(<<>>) /\ e.code = "Enter" /\ PanelOnEvent(e))
             => /\ p_result' \in {"Err: write failed", "Err: Request not sent"}
                /\ UNCHANGED <<written, MESSAGES, dialog, p_input, p_menu, p_content,
                               p_scroll>> ]_vars

\* Enter on the empty path of a loaded panel has failed: the input is still open
C16_Witness ==
    /\ p_input = Some(<<>>) /\ IsSome(p_content)
    /\ p_result = "Err: write failed"

C18_WriteFailureNonFatal ==
    /\ [][ \A e \in AppKeys :
             (error = None /\ e.code \in {"s", "S"} /\ OnKeyEvent(e))
                => /\ error' = None \/ IsSome(error')
                   /\ should_exit' = should_exit
                   /\ ui_pc' = "update"
                   /\ responses' = responses
                   /\ UNCHANGED <<focus, selected, req_ch, res_ch, outstanding>> ]_vars
    /\ [][ \A e \in AppKeys :
             (IsSome(error) /\ OnKeyEvent(e))
                => error' = None /\ ui_pc' = "update" /\ ~should_exit' ]_vars
    /\ [](IsSome(error) => ~should_exit /\ ui_pc # "exited")

\* the save of a loaded panel failed: the error popup is shown, the loop is
\* polling for the next key
C18_Witness ==
    /\ IsSome(error) /\ ui_pc = "poll"
    /\ focus = "ResponseBuffer" /\ IsSome(responses[selected].response)

\* the status line and the headers of the saved entire response
C19_Head(response) ==
    <<response.version, " ", response.status, "\n">> \o HeaderLines(response.headers)

\* C19 as stated: the entire-response save writes version, space, status,
\* newline, the headers, a blank separator (one or two line feeds) and then
\* the payload itself: the decoded text or the raw bytes, nothing added.
C19_EntireResponseExact ==
    [][ \A e \in PanelKeys :
          (PanelInputEnter(e) /\ p_result' = "Consumed" /\ p_save_option = "All")
             => \E sep \in {<<"\n">>, <<"\n", "\n">>} :
                   Unwrap(written').bytes =
                      C19_Head(Unwrap(p_content)) \o sep \o Unwrap(p_content).payload.bytes ]_vars

\* C20: the body-only save writes exactly the payload: the decoded text of a
\* Text payload, the raw bytes of a Bytes payload, and nothing else.
C20_BodyOnlyExact ==
    [][ \A e \in PanelKeys :
          (PanelInputEnter(e) /\ p_result' = "Consumed" /\ p_save_option = "Body")
             => /\ Unwrap(written').bytes = Unwrap(p_content).payload.bytes
                /\ Unwrap(written').path = Unwrap(p_input) ]_vars

\* the body of the Bytes response has been saved
C20_Witness ==
    /\ IsSome(written) /\ p_save_option = "Body"
    /\ p_content = Some(BytesResponse)
    /\ Unwrap(written).bytes = BytesResponse.payload.bytes

\* C21: the scroll offset of every panel is never negative (it is a u16), and
\* k / Up on the selected panel at offset 0 leaves it at 0, whatever j/Down and
\* k/Up came before.
C21_ScrollNeverNegative ==
    /\ [](\A i \in Indices : responses[i].scroll \in 0..U16Max)
    /\ [][ \A e \in AppKeys :
             (/\ e.code \in {"k", "Up"} /\ OnKeyEvent(e)
              /\ error = None /\ focus = "ResponseBuffer" /\ SelectedResponse.scroll = 0)
                => responses' = responses ]_vars

\* one panel is scrolled down, the selected one is at offset 0 in the response
\* buffer, where k and Up are handled next
C21_Witness ==
    /\ ui_pc = "poll" /\ error = None /\ focus = "ResponseBuffer"
    /\ SelectedResponse.scroll = 0
    /\ \E i \in Indices : responses[i].scroll = MaxScroll

\* C22: at most one message is active: the dialog holds one message or none;
\* a message leaves the queue only from its head, into the dialog, and only
\* when no message is active; while a message is active it is replaced by no
\* other: it stays or it is dismissed, and the queue loses nothing.
C22_OneActiveMessage ==
    /\ [](Len(dialog) <= 1)
    /\ [][ /\ IsSome(dialog) =>
                /\ dialog' \in {dialog, None}
                /\ Len(MESSAGES') >= Len(MESSAGES)
                /\ SubSeq(MESSAGES', 1, Len(MESSAGES)) = MESSAGES
           /\ DialogUpdate =>
                IF IsSome(dialog) \/ MESSAGES = <<>>
                  THEN UNCHANGED <<dialog, MESSAGES>>
                  ELSE dialog' = Some(Head(MESSAGES)) /\ MESSAGES' = Tail(MESSAGES) ]_vars

\* a message is active while another one waits in the queue
C22_Witness == IsSome(dialog) /\ MESSAGES # <<>>

\* C23: while the error popup is shown, every key event, the quit keys
\* included, only dismisses the popup: focus, selection, every panel (content
\* and scroll), should_exit, the request channel and the submissions are
\* unchanged, and the event loop goes on to its next update.
C23_AnyKeyOnlyDismisses ==
    [][ \A e \in AppKeys :
          (IsSome(error) /\ OnKeyEvent(e))
             => /\ error' = None
                /\ ui_pc' = "update"
                /\ UNCHANGED <<focus, selected, responses, should_exit, req_ch, res_ch,
                               ui_pending, outstanding, panelVars>> ]_vars

\* the error popup is shown over the response buffer, a submission
\* outstanding and the selected panel scrolled
C23_Witness ==
    /\ IsSome(error) /\ ui_pc = "poll"
    /\ focus = "ResponseBuffer" /\ outstanding # <<>>
    /\ SelectedResponse.scroll = MaxScroll

\* the step promotes the head of the queue to the active message
PromoteOldest ==
    /\ dialog = None /\ MESSAGES # <<>>
    /\ dialog' = Some(Head(MESSAGES))
    /\ MESSAGES' = Tail(MESSAGES)

\* C24: the queue loses and duplicates nothing, for every interleaving of
\* pushes by the UI task, pushes by another task and ticks: the queue changes
\* only by one message added at its tail or by its head becoming the active
\* message, the active message changes only by that promotion or by its
\* dismissal, so messages are shown in the order of their pushes, each once;
\* and with ticks and dismissals continuing every pushed message is shown:
\* the queue is empty again and again, or its head is promoted again and again.
C24_QueueFifo ==
    /\ [][ /\ MESSAGES' # MESSAGES =>
                \/ PromoteOldest
                \/ /\ \E m \in InfoMessages \cup ErrorMessages :
                          MESSAGES' = Append(MESSAGES, m)
                   /\ dialog' = dialog
           /\ dialog' # dialog =>
                \/ PromoteOldest
                \/ dialog' = None /\ MESSAGES' = MESSAGES ]_vars
    /\ \/ []<>(MESSAGES = <<>>)
       \/ []<><<PromoteOldest>>_vars

\* a message is shown while an Info pushed by the UI task waits behind an Error
\* pushed by the other task
C24_Witness ==
    /\ IsSome(dialog)
    /\ Len(MESSAGES) = 2
    /\ MESSAGES[1].kind = "Error" /\ MESSAGES[2].kind = "Info"

\* the worker task has ended: its loop returned or its unwrap panicked
WorkerTerminated(w) == w_pc[w] \in {"done", "panicked"}

\* C25 as stated: the worker never terminates while the request channel is
\* open (req_tx alive), and once the request channel is closed every worker
\* eventually terminates, whether it was idle, executing or delivering.
C25_WorkerLifetime ==
    /\ [][ \A w \in Workers :
             (~WorkerTerminated(w) /\ WorkerTerminated(w)') => AppDropped ]_vars
    /\ AppDropped ~> (\A w \in Workers : WorkerTerminated(w))

\* the lifecycle of panel i: Empty (never merged), Loaded (holds a Response)
PanelEmpty(i) == responses[i].response = None
PanelLoaded(i) == IsSome(responses[i].response) /\ Unwrap(responses[i].response).kind = "ok"

\* C26 as stated: every panel starts Empty; the response content of a panel
\* changes only at an update that merges a result carrying the panel's own
\* index; a Loaded panel stays Loaded across re-sends, and a panel that is not
\* Empty never becomes Empty again.
C26_PanelLifecycle ==
    /\ \A i \in Indices : PanelEmpty(i)
    /\ [][ \A i \in Indices :
             /\ responses'[i].response # responses[i].response =>
                   UpdateMerges /\ Head(res_ch).i = i
             /\ PanelLoaded(i) => PanelLoaded(i)'
             /\ ~PanelEmpty(i) => ~PanelEmpty(i)' ]_vars

\* the application as constructed, but for the position of run_app's loop
InitialState ==
    /\ focus = "RequestsList" /\ selected = 0 /\ error = None /\ ~should_exit
    /\ outstanding = <<>>
    /\ \A i \in Indices : PanelEmpty(i)

\* the state after the first Enter (drill in)
DrilledIn ==
    /\ focus = "ResponseBuffer" /\ selected = 0 /\ error = None /\ ~should_exit
    /\ outstanding = <<>>
    /\ \A i \in Indices : PanelEmpty(i)

\* the state after the second Enter (send)
SentOnce ==
    /\ focus = "ResponseBuffer" /\ selected = 0
    /\ outstanding = <<0>>
    /\ \A i \in Indices : PanelEmpty(i)

\* C27: from the initial state the first Enter submits nothing and moves the
\* focus to the response buffer; the second Enter makes exactly one
\* submission, (request 0, index 0), accepted at once, the focus staying on
\* the response buffer; the update that takes the transport's response for it
\* leaves panel 0 holding exactly that response, no longer Empty; and under
\* FairSpec that update comes, unless the user quits first.
C27_EnterTwiceSubmitsOnce ==
    /\ [][ \A e \in AppKeys : (e.code = "Enter" /\ OnKeyEvent(e)) =>
             /\ InitialState => DrilledIn' /\ req_ch' = <<>> /\ ui_pending' = None
             /\ DrilledIn =>
                   /\ SentOnce'
                   /\ req_ch' = <<ReqItem(Request(0), 0, 1)>>
                   /\ ui_pending' = None /\ ui_pc' = "update" ]_vars
    /\ [][ (UpdateMerges /\ SentOnce /\ Head(res_ch).data.kind = "ok") =>
             /\ Head(res_ch).data \in ExecuteOutcomes(Request(0))
             /\ responses'[0] = [response |-> Some(Head(res_ch).data), scroll |-> 0]
             /\ PanelLoaded(0)' /\ ~PanelEmpty(0)'
             /\ outstanding' = <<>> ]_vars
    /\ SentOnce ~> (~PanelEmpty(0) \/ should_exit)

\* Enter was pressed twice and nothing else: the one submission has been
\* merged, panel 0 holds the response and the other panel is still Empty
C27_Witness ==
    /\ focus = "ResponseBuffer" /\ selected = 0
    /\ PanelLoaded(0) /\ responses[0].scroll = 0
    /\ \A i \in Indices \ {0} : PanelEmpty(i)
    /\ outstanding = <<>> /\ req_ch = <<>> /\ res_ch = <<>>

\* the UI is in the send of an Enter submit
UiSubmitting == ui_pc = "send"
\* the UI cannot complete that send: the request channel is full
UiBlocked == UiSubmitting /\ Len(req_ch) = ChannelCapacity
\* worker w cannot deliver: the result channel is full and its receiver alive
WorkerBlocked(w) == w_pc[w] = "send" /\ Len(res_ch) = ChannelCapacity /\ ~ResRxDropped

\* C28: the UI and the worker never wait for each other: in no reachable
\* state is the UI suspended in the send of an Enter submit while a worker
\* cannot deliver its result; and under FairSpec every suspended submit
\* completes, however many Enter presses came before it.
C28_NoDeadlock ==
    /\ [](~(UiBlocked /\ \E w \in Workers : WorkerBlocked(w)))
    /\ UiSubmitting ~> ~UiSubmitting

\* the UI cannot complete a submit while the worker is at the send of a
\* result, the result channel having room for it
C28_Witness ==
    /\ UiBlocked
    /\ \E w \in Workers : w_pc[w] = "send"
    /\ res_ch = <<>>

\* the submissions a worker has received and not delivered
HeldByWorker == Cardinality({w \in Workers : IsSome(w_job[w])})

\* C29: at most three accepted submissions are not merged yet, one waiting in
\* the request channel, one held by the worker and one waiting in the result
\* channel; a submission is accepted only into an empty request channel, and
\* the request channel loses a request only by the worker's receive, so after
\* an accepted submit no further one is accepted until the worker receives.
C29_AtMostThreeUndrained ==
    /\ [](/\ AcceptedUndrained <= 3
          /\ AcceptedUndrained = Len(req_ch) + HeldByWorker + Len(res_ch)
          /\ Len(req_ch) <= 1 /\ HeldByWorker <= 1 /\ Len(res_ch) <= 1)
    /\ [][ /\ AcceptedUndrained' > AcceptedUndrained =>
                /\ req_ch = <<>>
                /\ Len(req_ch') = 1
                /\ AcceptedUndrained' = AcceptedUndrained + 1
           /\ Len(req_ch') < Len(req_ch) => \E w \in Workers : WorkerRecv(w) ]_vars

\* three accepted submissions wait for their merge: one in each channel and
\* one with the worker
C29_Witness ==
    /\ AcceptedUndrained = 3
    /\ Len(req_ch) = 1 /\ Len(res_ch) = 1
    /\ \E w \in Workers : w_pc[w] = "exec"

\* C30: the merge of a result replaces the whole state of the panel: after
\* it the panel holds the merged response, its scroll offset is 0, its save
\* menu and its path input are closed and its save option is the default,
\* whatever the scroll offset and the save sub-state were before.
C30_MergeReplacesPanel ==
    [][ \A r \in PanelResponses : PanelFrom(r) =>
          /\ p_content' = Some(r)
          /\ p_scroll' = 0
          /\ p_menu' = None /\ p_input' = None
          /\ p_save_option' = "All" ]_vars

\* a result was merged while the path input was open: the last key event was
\* an Enter whose write failed, which leaves the input open, and the input is
\* closed now
C30_Witness ==
    /\ p_result = "Err: write failed"
    /\ IsSome(p_content)
    /\ p_input = None /\ p_menu = None
    /\ p_scroll = 0

\* C31 as stated: in every reachable state of a panel at most one of the save
\* menu and the path input is open, whatever keys were handled.
C31_AtMostOnePopup == ~(IsSome(p_menu) /\ IsSome(p_input))

\* C32: an Enter in the path input of a panel without content, in either save
\* mode and with any path, returns the error "Request not sent": nothing is
\* written, no message is pushed, and the path input stays open with its path.
C32_EmptyPanelSaveFails ==
    [][ \A e \in PanelKeys :
          (e.code = "Enter" /\ IsSome(p_input) /\ p_content = None /\ PanelOnEvent(e)) =>
             /\ p_result' = "Err: Request not sent"
             /\ UNCHANGED <<written, MESSAGES, p_input, p_save_option, p_menu, p_scroll,
                            p_content>> ]_vars

\* the save of the body only to a typed path was confirmed on a panel without
\* content
C32_Witness ==
    /\ p_result = "Err: Request not sent"
    /\ p_content = None
    /\ p_save_option = "Body"
    /\ IsSome(p_input) /\ Len(Unwrap(p_input)) = MaxPath
    /\ written = None /\ MESSAGES = <<>>

\* C33: when the write of a confirmed save fails, the save flow is as it was
\* before the Enter: the path input is open with the typed path, the save
\* option and the save menu are unchanged, and no message has been pushed.
C33_WriteFailureKeepsFlow ==
    [][ \A e \in PanelKeys :
          (/\ e.code = "Enter" /\ IsSome(p_input) /\ IsSome(p_content)
           /\ PanelOnEvent(e) /\ p_result' # "Consumed") =>
             /\ p_result' = "Err: write failed"
             /\ IsSome(p_input') /\ p_input' = p_input
             /\ UNCHANGED <<p_save_option, p_menu, MESSAGES>> ]_vars

\* the write of the body only of a loaded panel to a typed path failed: the
\* input still holds the path
C33_Witness ==
    /\ p_result = "Err: write failed"
    /\ IsSome(p_content)
    /\ p_save_option = "Body"
    /\ IsSome(p_input) /\ Len(Unwrap(p_input)) = MaxPath
    /\ MESSAGES = <<>> /\ dialog = None

\* the request a step submits, if it submits one: the item that enters the
\* request channel or is held by the suspended send
Submitted ==
    IF ui_pc' = "send" THEN Unwrap(ui_pending') ELSE req_ch'[Len(req_ch')]

\* C34: while the focus is on the response buffer the selected index does not
\* change; there j / Down and k / Up change the scroll offset of the selected
\* panel (or dismiss a shown error popup) and nothing else, so a submission
\* made there carries the request and the index selected at the drill-in; and no key
\* event changes the scroll offset or the content of a panel other than the
\* selected one.
C34_SelectionFixedInBuffer ==
    /\ [][ focus = "ResponseBuffer" => selected' = selected ]_vars
    /\ [][ \A e \in AppKeys : OnKeyEvent(e) =>
             /\ \A i \in Indices \ {selected} : responses'[i] = responses[i]
             /\ (focus = "ResponseBuffer" /\ e.code \in {"j", "Down", "k", "Up"}) =>
                   /\ responses'[selected].response = responses[selected].response
                   /\ UNCHANGED <<focus, selected, should_exit, req_ch, res_ch,
                                  ui_pending, outstanding>>
             /\ (focus = "ResponseBuffer" /\ Len(outstanding') > Len(outstanding)) =>
                   /\ Submitted.i = selected /\ Submitted.req = Request(selected)
                   /\ outstanding' = Append(outstanding, selected) ]_vars

\* request 1 was selected, drilled into, submitted and scrolled there, while
\* panel 0, loaded before, is as its merge left it
C34_Witness ==
    /\ focus = "ResponseBuffer" /\ selected = 1
    /\ responses[1].scroll = MaxScroll
    /\ IsSome(responses[0].response) /\ responses[0].scroll = 0
    /\ outstanding = <<1>>

\* the indices carried by the submissions and results in flight
CarriedIndices ==
    {req_ch[k].i : k \in 1..Len(req_ch)} \cup {res_ch[k].i : k \in 1..Len(res_ch)}
      \cup {ui_pending[k].i : k \in 1..Len(ui_pending)}
      \cup UNION {{w_job[w][k].i : k \in 1..Len(w_job[w])} : w \in Workers}

\* C35: the vector of panels has one entry per parsed request, always; every
\* index carried by a submission or a result is an index of it, and so is the
\* index every merging update assigns at.
C35_IndicesInRange ==
    /\ [](/\ DOMAIN responses = 0..(NumRequests - 1)
          /\ CarriedIndices \subseteq DOMAIN responses)
    /\ [][ UpdateMerges => Head(res_ch).i \in DOMAIN responses ]_vars

\* an update is about to merge a result for the last panel while a submission
\* for the first one waits in the request channel
C35_Witness ==
    /\ ui_pc = "update"
    /\ res_ch # <<>> /\ Head(res_ch).i = NumRequests - 1
    /\ req_ch # <<>> /\ Head(req_ch).i = 0

\* C36 as stated: the cursor of the save menu is always an index of its items;
\* j / Down and k / Up move it cyclically; a menu that opens highlights the
\* entire response (index 0); and an Enter right after the menu opened (the
\* cursor still at 0) selects the entire response, whatever save option an
\* earlier save left.
C36_MenuCursor ==
    /\ [](IsSome(p_menu) => Unwrap(p_menu) \in 0..(Len(SaveOptions) - 1))
    /\ [][ \A e \in PanelKeys : PanelOnEvent(e) =>
             /\ (p_menu = None /\ IsSome(p_menu')) => p_menu' = Some(0)
             /\ (ChoosingSaveMode /\ e.code \in {"j", "Down"}) =>
                   p_menu' = Some(IF Unwrap(p_menu) = Len(SaveOptions) - 1
                                    THEN 0 ELSE Unwrap(p_menu) + 1)
             /\ (ChoosingSaveMode /\ e.code \in {"k", "Up"}) =>
                   p_menu' = Some(IF Unwrap(p_menu) = 0
                                    THEN Len(SaveOptions) - 1 ELSE Unwrap(p_menu) - 1)
             /\ (p_menu = Some(0) /\ e.code = "Enter") => p_save_option' = "All" ]_vars

\* C37: the scroll offset is a u16 that saturates at 65535: scroll_down at
\* 65535 leaves it at 65535, no scroll_down takes it back to 0 or lowers it,
\* below 65535 scroll_down adds one; and a scroll_down applied to an offset
\* below 65535 and followed by a scroll_up gives that offset again.
C37_ScrollSaturates ==
    /\ [](p_scroll \in 0..65535)
    /\ [][ ScrollDown =>
             /\ p_scroll = 65535 => p_scroll' = 65535
             /\ p_scroll < 65535 => p_scroll' = p_scroll + 1
             /\ p_scroll' >= p_scroll /\ p_scroll' # 0 ]_vars
    /\ [](\A k \in 1..(Len(s_hist) - 1) :
            (/\ k + 1 = Len(s_hist)
             /\ s_hist[k].op = "down" /\ s_hist[k + 1].op = "up"
             /\ s_hist[k].from < 65535) => p_scroll = s_hist[k].from)

\* the offset went from 65534 to 65535 by a scroll_down, stayed there at the
\* next one, and a scroll_up took it to 65534
C37_Witness ==
    /\ s_hist = << [op |-> "down", from |-> 65534], [op |-> "down", from |-> 65535],
                   [op |-> "up", from |-> 65535] >>
    /\ p_scroll = 65534

====
